---- MODULE Spec2Model ----
(***************************************************************************)
(* Request handlers of the restaurant-management backend                   *)
(* (controllers/foodController.go, controllers/orderController.go) over    *)
(* the MongoDB collections opened in database/databaseConnection.go.       *)
(*                                                                         *)
(* A collection is the sequence of its documents in insertion (natural)    *)
(* order.  A document, and a bound request payload, is a function from the *)
(* names of the fields it carries to their values: a field that is absent  *)
(* (a nil pointer of the Go struct, a key the document does not hold) is   *)
(* not in the function's domain.  One action is one handled request.       *)
(***************************************************************************)
EXTENDS Integers, Sequences, FiniteSets, TLC

\* ------------------------------------------------------------------ bounds
\* Requests handled in one behaviour.
MaxOps == 2
\* Last clock reading, in ticks.
MaxNow == 2
\* Clock ticks in one second: the clock is finer than the stored timestamps.
TicksPerSecond == 2
\* Largest food collection the listing is run against.
MaxFoods == 5

\* ------------------------------------------------------- program constants
StatusOK == 200
StatusCreated == 201
StatusBadRequest == 400
StatusNotFound == 404
StatusInternalServerError == 500
DefaultRecordsPerPage == 10
DefaultPage == 1

VARIABLES
    foodCollection,   \* documents of collection "food"
    menuCollection,   \* documents of collection "menu"
    orderCollection,  \* documents of collection "order"
    tableCollection,  \* table_id values held by collection "table"
    now,              \* the clock, in ticks
    nextId,           \* ObjectIDs generated so far, plus one
    nreq,             \* requests handled so far
    last              \* the last request handled and its response

vars == <<foodCollection, menuCollection, orderCollection, tableCollection,
          now, nextId, nreq, last>>

\* ------------------------------------------------------------- small helpers
Min(a, b) == IF a < b THEN a ELSE b
Max(a, b) == IF a > b THEN a ELSE b

Has(doc, f) == f \in DOMAIN doc

\* A payload with field f absent, or carrying one of vals.
Opt(f, vals) == {<<>>} \cup {(f :> v) : v \in vals}

\* primitive.NewObjectID().Hex(): a value no earlier call returned.
NewObjectID == "o" \o ToString(nextId)

\* time.Parse(time.RFC3339, t.Format(time.RFC3339)): the fraction of the
\* second is dropped by the format.
RFC3339RoundTripExact(t) == t
RFC3339RoundTrip(t) == t - (t % TicksPerSecond)

\* ------------------------------------------------------------ the driver
\* Collection.FindOne(filter {key: v}): position of the first document whose
\* field key equals v, 0 when there is none (ErrNoDocuments).
FindOne(coll, key, v) ==
    LET hits == {i \in 1..Len(coll) : Has(coll[i], key) /\ coll[i][key] = v}
    IN  IF hits = {} THEN 0 ELSE CHOOSE i \in hits : \A j \in hits : i <= j

\* {"$set": upd} applied to one document.
ReplaceDocument(doc, upd) == upd
ApplySet(doc, upd) == upd @@ doc

\* The Upsert option every update passes.
NoUpsert == FALSE
Upsert == TRUE

\* Collection.UpdateOne(filter {key: id}, {"$set": upd}, opt).
UpdateOne(coll, key, id, upd) ==
    LET i == FindOne(coll, key, id)
    IN  IF i > 0 THEN [coll EXCEPT ![i] = ApplySet(@, upd)]
        ELSE IF Upsert THEN Append(coll, ApplySet((key :> id), upd))
        ELSE coll

\* The *mongo.UpdateResult of that call.
UpdateResult(coll, key, id, upd) ==
    LET i == FindOne(coll, key, id)
    IN  [MatchedCount  |-> IF i > 0 THEN 1 ELSE 0,
         ModifiedCount |-> IF i > 0 /\ ApplySet(coll[i], upd) # coll[i] THEN 1 ELSE 0,
         UpsertedCount |-> IF i = 0 /\ Upsert THEN 1 ELSE 0]

\* Collection.InsertOne(doc).
InsertOne(coll, doc) == Append(coll, doc)

\* {"$slice": [arr, pos, n]} with n > 0: n elements from position pos; a
\* negative pos counts from the end, and from the start when it reaches
\* further back than the array is long.
SliceOffByOne(arr, pos, n) ==
    LET start == IF pos >= 0 THEN Min(pos, Len(arr)) ELSE Max(0, Len(arr) + pos)
    IN  SubSeq(arr, start + 2, Min(Len(arr), start + 1 + n))
Slice(arr, pos, n) ==
    LET start == IF pos >= 0 THEN Min(pos, Len(arr)) ELSE Max(0, Len(arr) + pos)
    IN  SubSeq(arr, start + 1, Min(Len(arr), start + n))

\* c.JSON(status, body) of the handler of request op, which ends it.
Respond(op, id, payload, status, body) ==
    /\ last' = [op |-> op, id |-> id, payload |-> payload,
                status |-> status, body |-> body]
    /\ nreq' = nreq + 1

\* c.BindJSON fails on a body that is not the JSON of the struct.
Malformed == [malformed |-> TRUE]
BindJSON(payload) == ~Has(payload, "malformed")

\* ------------------------------------------------------------- validators
\* validate.Struct(food): name, price, food_image and menu_id are required.
ValidateFood(food) == {"name", "price", "food_image", "menu_id"} \subseteq DOMAIN food
\* validate.Struct(menu): name and category are required.
ValidateMenu(menu) == menu.name # "" /\ menu.category # ""
\* validate.Struct(order): table_id is required.
ValidateOrder(order) == Has(order, "table_id")

\* ------------------------------------------------------------------- food
\* round(num) = int(num + Copysign(0.5, num)); the argument is ten times num.
round(num10) ==
    IF num10 >= 0 THEN (num10 + 5) \div 10 ELSE -((5 - num10) \div 10)

\* toFixed(num, 2) on a price in thousandths, the result in thousandths.
toFixed(price) == round(price) * 10

\* strconv.Atoi(c.Query(name)) with its defaulting: the parameter when it is
\* a number of at least 1, the default otherwise.
QueryAtLeastOne(q, name, default) ==
    IF Has(q, name) /\ q[name] >= 1 THEN q[name] ELSE default

\* startIndex of GetFoods: derived from the page, overridden by a startIndex
\* parameter that parses as a number.
StartIndex(q) ==
    LET recordsPerPage == QueryAtLeastOne(q, "recordsPerPage", DefaultRecordsPerPage)
        page == QueryAtLeastOne(q, "page", DefaultPage)
    IN  IF Has(q, "startIndex") THEN q.startIndex ELSE (page - 1) * recordsPerPage

\* The pipeline $match {} / $group _id nil / $project $slice: no document
\* for an empty collection, one document otherwise.
Aggregate(coll, startIndex, recordsPerPage) ==
    IF Len(coll) = 0 THEN <<>>
    ELSE <<[total_count |-> Len(coll),
            food_items  |-> Slice(coll, startIndex, recordsPerPage)]>>

NoFoodItems == [message |-> "No food items found"]

GetFoods(q) ==
    /\ nreq < MaxOps
    /\ LET recordsPerPage == QueryAtLeastOne(q, "recordsPerPage", DefaultRecordsPerPage)
           allFoods == Aggregate(foodCollection, StartIndex(q), recordsPerPage)
       IN  IF Len(allFoods) = 0
           THEN Respond("GetFoods", "", q, StatusOK, NoFoodItems)
           ELSE Respond("GetFoods", "", q, StatusOK, allFoods[1])
    /\ UNCHANGED <<foodCollection, menuCollection, orderCollection,
                   tableCollection, now, nextId>>

\* menuCollection.FindOne(menu_id = food.Menu_id) of CreateFood found one.
AnyMenuFound(food) == TRUE
CreateFoodMenuFound(food) == FindOne(menuCollection, "menu_id", food.menu_id) > 0

CreateFood(food) ==
    /\ nreq < MaxOps
    /\ IF ~BindJSON(food) \/ ~ValidateFood(food)
       THEN /\ Respond("CreateFood", "", food, StatusBadRequest, [error |-> "invalid"])
            /\ UNCHANGED <<foodCollection, nextId>>
       ELSE IF ~CreateFoodMenuFound(food)
       THEN /\ Respond("CreateFood", "", food, StatusNotFound, [error |-> "Menu not found"])
            /\ UNCHANGED <<foodCollection, nextId>>
       ELSE LET ts == RFC3339RoundTrip(now)
                doc == ("food_id" :> NewObjectID) @@ ("created_at" :> ts)
                       @@ ("updated_at" :> ts)
                       @@ ("price" :> toFixed(food.price)) @@ food
            IN  /\ foodCollection' = InsertOne(foodCollection, doc)
                /\ nextId' = nextId + 1
                /\ Respond("CreateFood", "", food, StatusCreated,
                           [InsertedID |-> NewObjectID])
    /\ UNCHANGED <<menuCollection, orderCollection, tableCollection, now>>

\* menuCollection.FindOne(menu_id = food.Menu_id) of UpdateFood found one.
UpdateFoodMenuFound(food) == FindOne(menuCollection, "menu_id", food.menu_id) > 0

\* updateObj of UpdateFood: the fields the payload carries, and updated_at.
UpdateFoodSet(food) ==
    [f \in (DOMAIN food \cap {"name", "price", "food_image", "menu_id"})
           \cup {"updated_at"} |->
        IF f = "updated_at" THEN RFC3339RoundTrip(now) ELSE food[f]]

\* Status of UpdateFood for a menu_id that matches no menu.
UpdateFoodMenuMissingStatus == StatusInternalServerError

UpdateFood(foodId, food) ==
    /\ nreq < MaxOps
    /\ IF ~BindJSON(food)
       THEN /\ Respond("UpdateFood", foodId, food, StatusBadRequest, [error |-> "invalid"])
            /\ UNCHANGED foodCollection
       ELSE IF Has(food, "menu_id") /\ ~UpdateFoodMenuFound(food)
       THEN /\ Respond("UpdateFood", foodId, food, UpdateFoodMenuMissingStatus,
                       [error |-> "message : Menu not found"])
            /\ UNCHANGED foodCollection
       ELSE /\ foodCollection' =
                   UpdateOne(foodCollection, "food_id", foodId, UpdateFoodSet(food))
            /\ Respond("UpdateFood", foodId, food, StatusOK,
                       UpdateResult(foodCollection, "food_id", foodId, UpdateFoodSet(food)))
    /\ UNCHANGED <<menuCollection, orderCollection, tableCollection, now, nextId>>

\* ------------------------------------------------------------------- menu
GetMenus ==
    /\ nreq < MaxOps
    /\ Respond("GetMenus", "", <<>>, StatusOK, menuCollection)
    /\ UNCHANGED <<foodCollection, menuCollection, orderCollection,
                   tableCollection, now, nextId>>

CreateMenu(menu) ==
    /\ nreq < MaxOps
    /\ IF ~BindJSON(menu) \/ ~ValidateMenu(menu)
       THEN /\ Respond("CreateMenu", "", menu, StatusBadRequest, [error |-> "invalid"])
            /\ UNCHANGED <<menuCollection, nextId>>
       ELSE LET ts == RFC3339RoundTrip(now)
                doc == ("menu_id" :> NewObjectID) @@ ("created_at" :> ts)
                       @@ ("updated_at" :> ts) @@ menu
            IN  /\ menuCollection' = InsertOne(menuCollection, doc)
                /\ nextId' = nextId + 1
                /\ Respond("CreateMenu", "", menu, StatusCreated,
                           [InsertedID |-> NewObjectID])
    /\ UNCHANGED <<foodCollection, orderCollection, tableCollection, now>>

\* inTimeSpan(start, end, check): check is not read, the clock is.
inTimeSpanStartOnly(start, end, check) == start > now
inTimeSpan(start, end, check) == start > now /\ end > start

\* updateObj of UpdateMenu: both dates when both are given, a name and a
\* category that are not the empty string, and updated_at.
UpdateMenuSet(menu) ==
    LET dates == IF Has(menu, "start_date") /\ Has(menu, "end_date")
                 THEN {"start_date", "end_date"} ELSE {}
        name == IF menu.name # "" THEN {"name"} ELSE {}
        category == IF menu.category # "" THEN {"category"} ELSE {}
    IN  [f \in dates \cup name \cup category \cup {"updated_at"} |->
            IF f = "updated_at" THEN RFC3339RoundTrip(now) ELSE menu[f]]

UpdateMenu(menuId, menu) ==
    /\ nreq < MaxOps
    /\ IF ~BindJSON(menu)
       THEN /\ Respond("UpdateMenu", menuId, menu, StatusBadRequest, [error |-> "invalid"])
            /\ UNCHANGED menuCollection
       ELSE IF /\ Has(menu, "start_date") /\ Has(menu, "end_date")
               /\ ~inTimeSpan(menu.start_date, menu.end_date, now)
       THEN /\ Respond("UpdateMenu", menuId, menu, StatusInternalServerError,
                       [error |-> "Kindly correct the time"])
            /\ UNCHANGED menuCollection
       ELSE /\ menuCollection' =
                   UpdateOne(menuCollection, "menu_id", menuId, UpdateMenuSet(menu))
            /\ Respond("UpdateMenu", menuId, menu, StatusOK,
                       UpdateResult(menuCollection, "menu_id", menuId, UpdateMenuSet(menu)))
    /\ UNCHANGED <<foodCollection, orderCollection, tableCollection, now, nextId>>

\* ------------------------------------------------------------------ order
NoOrders == [message |-> "No orders found"]

GetOrders ==
    /\ nreq < MaxOps
    /\ LET allOrders == orderCollection
       IN  IF Len(allOrders) = 0
           THEN Respond("GetOrders", "", <<>>, StatusOK, NoOrders)
           ELSE Respond("GetOrders", "", <<>>, StatusOK, allOrders[1])
    /\ UNCHANGED <<foodCollection, menuCollection, orderCollection,
                   tableCollection, now, nextId>>

CreateOrder(order) ==
    /\ nreq < MaxOps
    /\ IF ~BindJSON(order) \/ ~ValidateOrder(order)
       THEN /\ Respond("CreateOrder", "", order, StatusBadRequest, [error |-> "invalid"])
            /\ UNCHANGED <<orderCollection, nextId>>
       ELSE IF FindOne(tableCollection, "table_id", order.table_id) = 0
       THEN /\ Respond("CreateOrder", "", order, StatusNotFound, [error |-> "Table not found"])
            /\ UNCHANGED <<orderCollection, nextId>>
       ELSE LET ts == RFC3339RoundTrip(now)
                doc == ("order_id" :> NewObjectID) @@ ("created_at" :> ts)
                       @@ ("updated_at" :> ts) @@ order
            IN  /\ orderCollection' = InsertOne(orderCollection, doc)
                /\ nextId' = nextId + 1
                /\ Respond("CreateOrder", "", order, StatusCreated,
                           [InsertedID |-> NewObjectID])
    /\ UNCHANGED <<foodCollection, menuCollection, tableCollection, now>>

\* tableCollection.FindOne(table_id = order.Table_id) of UpdateOrder found one.
AnyTableFound(order) == TRUE
UpdateOrderTableFound(order) ==
    FindOne(tableCollection, "table_id", order.table_id) > 0

\* updateObj of UpdateOrder: table_id when the payload carries it, and updated_at.
UpdateOrderSet(order) ==
    [f \in (DOMAIN order \cap {"table_id"}) \cup {"updated_at"} |->
        IF f = "updated_at" THEN RFC3339RoundTrip(now) ELSE order[f]]

UpdateOrder(orderId, order) ==
    /\ nreq < MaxOps
    /\ IF ~BindJSON(order)
       THEN /\ Respond("UpdateOrder", orderId, order, StatusBadRequest, [error |-> "invalid"])
            /\ UNCHANGED orderCollection
       ELSE IF Has(order, "table_id") /\ ~UpdateOrderTableFound(order)
       THEN /\ Respond("UpdateOrder", orderId, order, StatusInternalServerError,
                       [error |-> "message : Order not found"])
            /\ UNCHANGED orderCollection
       ELSE /\ orderCollection' =
                   UpdateOne(orderCollection, "order_id", orderId, UpdateOrderSet(order))
            /\ Respond("UpdateOrder", orderId, order, StatusOK,
                       UpdateResult(orderCollection, "order_id", orderId, UpdateOrderSet(order)))
    /\ UNCHANGED <<foodCollection, menuCollection, tableCollection, now, nextId>>

\* OrderItemOrderCreator(order): called by the order-item handler with the
\* order it was sent; the result of InsertOne is not read.
OrderItemOrderCreator(order) ==
    /\ nreq < MaxOps
    /\ LET ts == RFC3339RoundTrip(now)
           doc == ("order_id" :> NewObjectID) @@ ("created_at" :> ts)
                  @@ ("updated_at" :> ts) @@ order
       IN  /\ orderCollection' = InsertOne(orderCollection, doc)
           /\ nextId' = nextId + 1
           /\ Respond("OrderItemOrderCreator", "", order, StatusOK, NewObjectID)
    /\ UNCHANGED <<foodCollection, menuCollection, tableCollection, now>>

\* ------------------------------------------------------------------ clock
\* Time passes between requests; after the last request of a behaviour the
\* clock is not read again.
Tick ==
    /\ now < MaxNow
    /\ nreq < MaxOps
    /\ now' = now + 1
    /\ UNCHANGED <<foodCollection, menuCollection, orderCollection,
                   tableCollection, nextId, nreq, last>>

\* ----------------------------------------------------------- request inputs
Ids(coll, key) == {coll[i][key] : i \in 1..Len(coll)}

\* Identifiers a URL can carry: those stored, and one that no record has.
UrlIds(coll, key) == Ids(coll, key) \cup {"x"}

\* Food payloads: every choice of fields, the menu_id a stored one or one
\* that is not stored.
FoodPayloads ==
    {n @@ p @@ i @@ m :
        n \in Opt("name", {"idli"}), p \in Opt("price", {1254}),
        i \in Opt("food_image", {"b.png"}),
        m \in Opt("menu_id", Ids(menuCollection, "menu_id") \cup {"nomenu"})}

\* Payloads of CreateFood: those that lack at most the menu or the name, and
\* a body that does not bind.
NewFoodPayloads ==
    {food \in FoodPayloads : {"price", "food_image"} \subseteq DOMAIN food}
    \cup {Malformed}

\* Dates a menu payload can carry, in ticks: one the clock passes, one it does not.
Early == 1
Late == MaxNow + 1

\* Menu payloads: name and category (the empty string when not sent), and no
\* date, one date, or both: the end after, at or before the start.
MenuPayloads ==
    {n @@ c @@ d :
        n \in {[name |-> v] : v \in {"", "dinner"}},
        c \in {[category |-> v] : v \in {"", "vegan"}},
        d \in {<<>>, [start_date |-> Early], [end_date |-> Late],
               [start_date |-> Early, end_date |-> Late],
               [start_date |-> Early, end_date |-> Early],
               [start_date |-> Late, end_date |-> Early]}}

\* Payloads of CreateMenu: no dates; and a body that does not bind.
NewMenuPayloads ==
    {menu \in MenuPayloads : DOMAIN menu = {"name", "category"}} \cup {Malformed}

\* Order payloads: no table, a stored one, or one that is not stored.
OrderPayloads == Opt("table_id", {"t1", "t2", "t9"})

Queries ==
    {r @@ p @@ s :
        r \in Opt("recordsPerPage", {0, 2}), p \in Opt("page", {0, 1, 3}),
        s \in Opt("startIndex", -2..MaxFoods)}

\* -------------------------------------------------------------------- Init
NoRequest == [op |-> "none", id |-> "", payload |-> <<>>, status |-> 0, body |-> <<>>]

\* The n-th menu an earlier run of the server created, at time 0.
SeedMenu(n) ==
    [menu_id |-> "m" \o ToString(n), name |-> "lunch", category |-> "veg",
     created_at |-> 0, updated_at |-> 0]

\* The n-th food an earlier run created, under the first of those menus.
SeedFood(n) ==
    [food_id |-> "f" \o ToString(n), name |-> "dosa", price |-> 1250,
     food_image |-> "a.png", menu_id |-> "m1", created_at |-> 0, updated_at |-> 0]

\* The n-th order an earlier run created, for the first table.
SeedOrder(n) ==
    [order_id |-> "r" \o ToString(n), table_id |-> "t1",
     created_at |-> 0, updated_at |-> 0]

\* The first n of each.
SeedMenus(n) == [i \in 1..n |-> SeedMenu(i)]
SeedFoods(n) == [i \in 1..n |-> SeedFood(i)]
SeedOrders(n) == [i \in 1..n |-> SeedOrder(i)]

\* The tables the table handlers stored.
Tables == <<[table_id |-> "t1"], [table_id |-> "t2"]>>

\* The database as the server finds it: empty but for the tables, or holding
\* what an earlier run created.
Init ==
    /\ \E n \in {0, 1} :
        /\ foodCollection = SeedFoods(n)
        /\ menuCollection = SeedMenus(n)
        /\ orderCollection = SeedOrders(n)
    /\ tableCollection = Tables
    /\ now = 0
    /\ nextId = 1
    /\ nreq = 0
    /\ last = NoRequest

DoCreateFood == \E food \in NewFoodPayloads : CreateFood(food)
DoUpdateFood ==
    \E foodId \in UrlIds(foodCollection, "food_id"),
       food \in FoodPayloads \cup {Malformed} :
        UpdateFood(foodId, food)
DoGetFoods == \E q \in Queries : GetFoods(q)
DoCreateMenu == \E menu \in NewMenuPayloads : CreateMenu(menu)
DoUpdateMenu ==
    \E menuId \in UrlIds(menuCollection, "menu_id"),
       menu \in MenuPayloads \cup {Malformed} :
        UpdateMenu(menuId, menu)
DoCreateOrder ==
    \E order \in OrderPayloads \cup {Malformed} : CreateOrder(order)
DoUpdateOrder ==
    \E orderId \in UrlIds(orderCollection, "order_id"),
       order \in OrderPayloads \cup {Malformed} :
        UpdateOrder(orderId, order)
DoOrderItemOrderCreator ==
    \E order \in OrderPayloads : OrderItemOrderCreator(order)

\* Every handler that writes, and the listings of orders and menus.
Next ==
    \/ Tick
    \/ DoCreateFood
    \/ DoUpdateFood
    \/ DoCreateMenu
    \/ DoUpdateMenu
    \/ DoCreateOrder
    \/ DoUpdateOrder
    \/ DoOrderItemOrderCreator
    \/ GetOrders
    \/ GetMenus

Spec == Init /\ [][Next]_vars

\* The listing of foods, against every size of the collection.
InitPage ==
    /\ \E n \in 0..MaxFoods : foodCollection = SeedFoods(n)
    /\ menuCollection = SeedMenus(2)
    /\ orderCollection = <<>>
    /\ tableCollection = Tables
    /\ now = 0
    /\ nextId = 1
    /\ nreq = 0
    /\ last = NoRequest

NextPage ==
    \/ Tick
    \/ DoGetFoods

SpecPage == InitPage /\ [][NextPage]_vars

\* ================================================================== claims
\* What the formulas below share.  A step handles request op when it counts
\* one more request and leaves op as the last one.
Handles(op) == nreq' = nreq + 1 /\ last'.op = op

UpdateOps == {"UpdateFood", "UpdateOrder", "UpdateMenu"}

\* The collection an update handler writes, out of the three, and its key.
Target(op, foods, orders, menus) ==
    CASE op = "UpdateFood" -> foods
      [] op = "UpdateOrder" -> orders
      [] op = "UpdateMenu" -> menus

KeyOf(op) ==
    CASE op = "UpdateFood" -> "food_id"
      [] op = "UpdateOrder" -> "order_id"
      [] op = "UpdateMenu" -> "menu_id"

\* The fields a payload asks an update handler to set.
SuppliedFields(op, payload) ==
    CASE op = "UpdateFood" ->
            DOMAIN payload \cap {"name", "price", "food_image", "menu_id"}
      [] op = "UpdateOrder" -> DOMAIN payload \cap {"table_id"}
      [] op = "UpdateMenu" ->
            {f \in {"name", "category"} : payload[f] # ""}
            \cup (IF {"start_date", "end_date"} \subseteq DOMAIN payload
                  THEN {"start_date", "end_date"} ELSE {})

\* The payload names an entity that is not stored.
ReferenceMissing(op, payload) ==
    \/ /\ op \in {"CreateFood", "UpdateFood"}
       /\ Has(payload, "menu_id")
       /\ payload.menu_id \notin Ids(menuCollection, "menu_id")
    \/ /\ op \in {"CreateOrder", "UpdateOrder"}
       /\ Has(payload, "table_id")
       /\ payload.table_id \notin Ids(tableCollection, "table_id")

\* The payload carries a window that does not pass the check of UpdateMenu.
WindowRefused(op, payload) ==
    /\ op = "UpdateMenu"
    /\ {"start_date", "end_date"} \subseteq DOMAIN payload
    /\ ~(payload.end_date > payload.start_date /\ payload.start_date > now)

\* Position of the document with identifier id, 0 when there is none.
At(coll, key, id) ==
    IF id \in Ids(coll, key) THEN CHOOSE i \in 1..Len(coll) : coll[i][key] = id ELSE 0

\* C1: CreateFood with a menu_id that no menu has inserts nothing; the payload
\* that binds and validates is answered not-found.
C1_CreateFoodMissingMenu ==
    [][(Handles("CreateFood") /\ ReferenceMissing("CreateFood", last'.payload))
        => /\ foodCollection' = foodCollection
           /\ last'.status >= StatusBadRequest
           /\ ValidateFood(last'.payload) => last'.status = StatusNotFound]_vars

\* A valid food was refused for its menu while the collection held foods.
C1_Witness ==
    /\ last.op = "CreateFood"
    /\ last.status = StatusNotFound
    /\ ValidateFood(last.payload)
    /\ Len(foodCollection) >= 1

\* C2: the table_id of every stored order is that of a stored table.
C2_OrdersReferenceTables ==
    \A i \in 1..Len(orderCollection) :
        Has(orderCollection[i], "table_id")
        => orderCollection[i].table_id \in Ids(tableCollection, "table_id")

\* C3: a successful update of a stored record changes, in that record, only
\* the fields the payload supplies and updated_at, and changes no other record.
C3_UpdateFrame ==
    [][\A op \in UpdateOps :
        LET before == Target(op, foodCollection, orderCollection, menuCollection)
            after == Target(op, foodCollection', orderCollection', menuCollection')
            i == At(before, KeyOf(op), last'.id)
            free == SuppliedFields(op, last'.payload) \cup {"updated_at"}
        IN  (Handles(op) /\ last'.status = StatusOK /\ i > 0)
            => /\ Len(after) = Len(before)
               /\ \A j \in 1..Len(before) : j # i => after[j] = before[j]
               /\ DOMAIN after[i] \ free = DOMAIN before[i] \ free
               /\ \A f \in DOMAIN before[i] \ free : after[i][f] = before[i][f]]_vars

\* A stored food, one of two, was updated with a name only.
C3_Witness ==
    /\ last.op = "UpdateFood"
    /\ last.status = StatusOK
    /\ last.body.MatchedCount = 1
    /\ DOMAIN last.payload = {"name"}
    /\ Len(foodCollection) = 2
    /\ LET i == At(foodCollection, "food_id", last.id)
       IN  /\ foodCollection[i].name = "idli"
           /\ foodCollection[i].price = 1250

\* C4 as claimed: a successful update of a stored record leaves its updated_at
\* greater than it was.
C4_UpdatedAtGrows ==
    [][\A op \in UpdateOps :
        LET before == Target(op, foodCollection, orderCollection, menuCollection)
            after == Target(op, foodCollection', orderCollection', menuCollection')
            i == At(before, KeyOf(op), last'.id)
        IN  (Handles(op) /\ last'.status = StatusOK /\ i > 0)
            => after[i].updated_at > before[i].updated_at]_vars

\* C4 as amended: a successful update of a stored record sets its updated_at
\* to the start of the clock's second: never less than it was, and greater
\* exactly when the record was last written in an earlier second.
C4_UpdatedAtIsTheSecond ==
    [][\A op \in UpdateOps :
        LET before == Target(op, foodCollection, orderCollection, menuCollection)
            after == Target(op, foodCollection', orderCollection', menuCollection')
            i == At(before, KeyOf(op), last'.id)
        IN  (Handles(op) /\ last'.status = StatusOK /\ i > 0)
            => /\ after[i].updated_at % TicksPerSecond = 0
               /\ after[i].updated_at <= now
               /\ now - after[i].updated_at < TicksPerSecond
               /\ after[i].updated_at >= before[i].updated_at
               /\ (after[i].updated_at > before[i].updated_at)
                    <=> (before[i].updated_at + TicksPerSecond <= now)]_vars

\* A stored order was updated in a later second than it was created in.
C4_Witness ==
    /\ last.op = "UpdateOrder"
    /\ last.status = StatusOK
    /\ last.body.MatchedCount = 1
    /\ LET i == At(orderCollection, "order_id", last.id)
       IN  /\ Has(orderCollection[i], "created_at")
           /\ orderCollection[i].updated_at > orderCollection[i].created_at

\* C5: an update that is not refused and whose identifier no record has is
\* answered OK and appends one record: the identifier, the fields the payload
\* supplies, and updated_at; an update whose identifier a record has appends
\* none.
C5_UpdateUpserts ==
    [][\A op \in UpdateOps :
        LET before == Target(op, foodCollection, orderCollection, menuCollection)
            after == Target(op, foodCollection', orderCollection', menuCollection')
            payload == last'.payload
            set == SuppliedFields(op, payload)
        IN  Handles(op) =>
            IF last'.id \in Ids(before, KeyOf(op)) THEN Len(after) = Len(before)
            ELSE (/\ BindJSON(payload)
                  /\ ~ReferenceMissing(op, payload)
                  /\ ~WindowRefused(op, payload))
                 => /\ last'.status = StatusOK
                    /\ Len(after) = Len(before) + 1
                    /\ SubSeq(after, 1, Len(before)) = before
                    /\ LET doc == after[Len(after)]
                       IN  /\ DOMAIN doc = {KeyOf(op), "updated_at"} \cup set
                           /\ doc[KeyOf(op)] = last'.id
                           /\ \A f \in set : doc[f] = payload[f]]_vars

\* An update of a food that was not stored created it, with the name sent.
C5_Witness ==
    /\ last.op = "UpdateFood"
    /\ last.status = StatusOK
    /\ last.body.UpsertedCount = 1
    /\ "name" \in DOMAIN last.payload
    /\ Len(foodCollection) = 2
    /\ foodCollection[2].food_id = last.id
    /\ foodCollection[2].name = last.payload.name

\* C6: UpdateFood with a menu_id no menu has, and UpdateOrder with a table_id
\* no table has, are answered with an error and write nothing.
C6_UpdateMissingReference ==
    [][\A op \in {"UpdateFood", "UpdateOrder"} :
        (Handles(op) /\ ReferenceMissing(op, last'.payload))
        => /\ last'.status >= StatusBadRequest
           /\ foodCollection' = foodCollection
           /\ orderCollection' = orderCollection
           /\ menuCollection' = menuCollection]_vars

\* An update of a stored food that also sent a name and a price was refused
\* for its menu.
C6_Witness ==
    /\ last.op = "UpdateFood"
    /\ last.status >= StatusBadRequest
    /\ last.id \in Ids(foodCollection, "food_id")
    /\ {"name", "price", "menu_id"} \subseteq DOMAIN last.payload
    /\ last.payload.menu_id \notin Ids(menuCollection, "menu_id")

\* The page size and the offset of a listing, as the claim gives them.
PageSize(q) ==
    IF Has(q, "recordsPerPage") /\ q.recordsPerPage >= 1
    THEN q.recordsPerPage ELSE DefaultRecordsPerPage

PageOffset(q) ==
    IF Has(q, "startIndex") THEN q.startIndex
    ELSE PageSize(q) * ((IF Has(q, "page") /\ q.page >= 1 THEN q.page ELSE DefaultPage) - 1)

\* The records at positions from .. from + n - 1 that exist, first position 0.
RecordsAt(coll, from, n) ==
    LET lo == Max(from, 0)
        hi == Min(from + n - 1, Len(coll) - 1)
    IN  [k \in 1..Max(0, hi - lo + 1) |-> coll[lo + k]]

\* C7 as claimed: the listing of an empty collection is the "no items"
\* message; of N > 0 foods it is total_count = N and the records at positions
\* startIndex .. startIndex + recordsPerPage - 1 that exist, for every
\* startIndex.
C7_PageFromStartIndex ==
    last.op = "GetFoods" =>
        LET N == Len(foodCollection)
            q == last.payload
        IN  IF N = 0 THEN last.body = NoFoodItems /\ ~Has(last.body, "total_count")
            ELSE /\ last.body.total_count = N
                 /\ last.body.food_items = RecordsAt(foodCollection, PageOffset(q), PageSize(q))

\* C7 as amended: as claimed for a startIndex of 0 or more; a negative
\* startIndex counts from the end, and the page starts at max(0, N + startIndex).
C7_PageFromEitherEnd ==
    last.op = "GetFoods" =>
        LET N == Len(foodCollection)
            q == last.payload
            from == IF PageOffset(q) >= 0 THEN PageOffset(q) ELSE Max(0, N + PageOffset(q))
        IN  IF N = 0 THEN last.body = NoFoodItems /\ ~Has(last.body, "total_count")
            ELSE /\ last.body.total_count = N
                 /\ last.body.food_items = RecordsAt(foodCollection, from, PageSize(q))
                 /\ Len(last.body.food_items) = Min(PageSize(q), Max(0, N - from))

\* Page 3 of 5 foods, 2 to the page, held the fifth food alone.
C7_Witness ==
    /\ last.op = "GetFoods"
    /\ Len(foodCollection) = 5
    /\ last.payload = [recordsPerPage |-> 2, page |-> 3]
    /\ last.body.total_count = 5
    /\ last.body.food_items = <<foodCollection[5]>>

\* C8: a write that names an entity that is not stored, in a payload that
\* binds and validates, is answered not-found; none of these handlers answers
\* with a server error.
C8_MissingReferenceIsNotFound ==
    last.op \in {"CreateFood", "UpdateFood", "CreateOrder", "UpdateOrder"} =>
        /\ last.status # StatusInternalServerError
        /\ (/\ ReferenceMissing(last.op, last.payload)
            /\ last.op = "CreateFood" => ValidateFood(last.payload))
           => last.status = StatusNotFound

\* C9: the listing of N >= 1 orders, and of N >= 1 menus, holds all N records.
C9_ListHoldsAll ==
    /\ (last.op = "GetOrders" /\ Len(orderCollection) >= 1)
       => \A i \in 1..Len(orderCollection) : last.body = orderCollection[i]
    /\ (last.op = "GetMenus" /\ Len(menuCollection) >= 1)
       => last.body = menuCollection

\* The dates a menu stores.
Window(doc) == [f \in DOMAIN doc \cap {"start_date", "end_date"} |-> doc[f]]

\* C10: UpdateMenu with a start and an end writes them when the end is after
\* the start and the start after the clock, and is otherwise answered with an
\* error and writes nothing; with fewer than both it changes no stored date.
C10_MenuWindow ==
    [][(Handles("UpdateMenu") /\ BindJSON(last'.payload)) =>
        LET menu == last'.payload
            n == Len(menuCollection)
        IN  IF {"start_date", "end_date"} \subseteq DOMAIN menu
            THEN IF menu.end_date > menu.start_date /\ menu.start_date > now
                 THEN /\ last'.status = StatusOK
                      /\ LET i == At(menuCollection', "menu_id", last'.id)
                         IN  /\ i > 0
                             /\ Window(menuCollection'[i]) = Window(menu)
                             /\ \A j \in 1..n : j # i =>
                                    menuCollection'[j] = menuCollection[j]
                 ELSE /\ last'.status >= StatusBadRequest
                      /\ menuCollection' = menuCollection
            ELSE \A i \in 1..Len(menuCollection') :
                    Window(menuCollection'[i]) =
                        IF i <= n THEN Window(menuCollection[i]) ELSE <<>>]_vars

\* An UpdateMenu stored the window it was sent.
C10_Witness ==
    /\ last.op = "UpdateMenu"
    /\ last.status = StatusOK
    /\ {"start_date", "end_date"} \subseteq DOMAIN last.payload
    /\ LET i == At(menuCollection, "menu_id", last.id)
       IN  /\ menuCollection[i].start_date = last.payload.start_date
           /\ menuCollection[i].end_date > menuCollection[i].start_date

====
